---- MODULE Spec2Model ----
(***************************************************************************)
(* Model of the CachyOS kernel manager GUI.                                *)
(*                                                                         *)
(*  - km-window.cpp: the main window.  The UI thread runs the handlers     *)
(*    item_changed/buildChangeList, on_execute, closeEvent and the         *)
(*    destructor; one worker thread runs the lambda given to Work, parked  *)
(*    on m_cv.  The two threads interleave at the granularity of the       *)
(*    atomic loads and stores of m_running and m_thread_running.  The UI   *)
(*    thread never takes m_mutex after the constructor, so its stores and  *)
(*    notifications may fall between the worker's evaluation of the wait   *)
(*    predicate and its blocking.  Kernel::install, Kernel::remove and     *)
(*    Kernel::commit_transaction live in kernel.cpp; each may fail.        *)
(*  - schedext-window.cpp: read_kernel_file / get_current_scheduler and    *)
(*    the timer that refreshes the label.                                  *)
(***************************************************************************)
EXTENDS Naturals, Integers, Sequences, FiniteSets, TLC

\* ------------------------------------------------------------------ bounds
\* Longest change list the model lets the user build.
MaxList == 2
\* Most lines of a file under /sys/kernel/sched_ext.
MaxLines == 2
\* Most tokens of the text typed into schedext_flags_edit.
MaxFlagLen == 1
\* Most tokens of a line of /etc/default/scx.
MaxLineLen == 6

\* The kernel packages the tree lists (Kernel::get_kernels).
Kernels == {"linux-cachyos", "linux-cachyos-lts"}

VARIABLES
    \* ---- MainWindow fields
    m_running,            \* std::atomic<bool> m_running
    m_thread_running,     \* std::atomic<bool> m_thread_running
    m_change_list,        \* QStringList m_change_list
    ok_enabled,           \* m_ui->ok->isEnabled()
    checked,              \* check state of each tree item
    immutable,            \* TreeCol::Immutable of each tree item
    installed,            \* Kernel::is_installed() of each kernel
    update_available,     \* Kernel::is_update_available() of each kernel
    handle_released,      \* number of alpm_release(m_handle) calls
    exit_requested,       \* m_worker_th->exit() was called
    \* ---- positions of the two threads
    uipc,                 \* UI thread: the handler statement it is at
    wpc,                  \* worker thread: the statement of the lambda it is at
    \* ---- locals of the worker lambda
    change_list,          \* std::vector<std::string> change_list
    idx,                  \* loop index of the copy / install / remove loops
    \* ---- history variables
    nExec,                \* invocations of Work::doHeavyCalculations
    txlog,                \* steps of the worker's current transaction
    uiLast,               \* "rejected" right after an on_execute that returned early
    immToggles,           \* checkbox changes of each immutable item
    committedClean,       \* a transaction committed and no checkbox changed since
    closeSetRunning,      \* m_running is true because closeEvent stored it
    seenLists,            \* the values m_change_list had while it was being copied
    backAtConfirm,        \* items in their initial check state at the pending confirmation
    \* ---- scheduler window
    state_file,           \* /sys/kernel/sched_ext/state
    ops_file,             \* /sys/kernel/sched_ext/root/ops
    current_sched_label,  \* m_ui->current_sched_label text
    ops_read,             \* the last get_current_scheduler opened the ops file
    scx_conf,             \* /etc/default/scx as utils::read_whole_file returns it
    svc_enabled_out,      \* what utils::exec returns for `systemctl is-enabled scx`
    svc_active_out,       \* what utils::exec returns for `systemctl is-active scx`
    flags_edit,           \* m_ui->schedext_flags_edit->text()
    combo_current,        \* m_ui->schedext_combo_box->currentText()
    apply_button,         \* m_ui->apply_button->isEnabled()
    disable_button,       \* m_ui->disable_button->isEnabled()
    launched,             \* the processes the last handler started detached
    proc,                 \* what became of the launched process
    handler,              \* the last handler of the scheduler window that ran
    conf_before           \* /etc/default/scx as the last launched process found it

kmvars == <<m_running, m_thread_running, m_change_list, ok_enabled, checked,
            immutable, installed, update_available, handle_released,
            exit_requested, uipc, wpc, change_list, idx, nExec, txlog, uiLast, immToggles, committedClean,
            closeSetRunning, seenLists, backAtConfirm>>

histvars == <<closeSetRunning, seenLists, backAtConfirm>>

applyvars == <<scx_conf, svc_enabled_out, svc_active_out, flags_edit,
               combo_current, apply_button, disable_button, launched, proc,
               handler, conf_before>>

sysfsvars == <<state_file, ops_file, current_sched_label, ops_read>>

schedvars == <<sysfsvars, applyvars>>

vars == <<kmvars, schedvars>>

\* ---------------------------------------------------------------- helpers
\* Number of occurrences of x in the sequence s.
Count(x, s) == Cardinality({i \in 1..Len(s) : s[i] = x})

\* QList::removeOne: removes the first occurrence of x, if any.
RemoveOne(s, x) ==
    IF \E i \in 1..Len(s) : s[i] = x
    THEN LET p == CHOOSE i \in 1..Len(s) :
                      s[i] = x /\ \A j \in 1..(i - 1) : s[j] # x
         IN  [i \in 1..(Len(s) - 1) |-> IF i < p THEN s[i] ELSE s[i + 1]]
    ELSE s

Entry(op, pkg, ok) == [op |-> op, pkg |-> pkg, ok |-> ok]

\* ------------------------------------------------- scheduler window (pure)
\* The lines a file under /sys/kernel/sched_ext may hold.
Lines == {"enabled", "disabled", "", "scx_rusty"}

RECURSIVE SeqsUpTo(_, _)
SeqsUpTo(S, n) ==
    IF n = 0 THEN {<<>>}
    ELSE LET shorter == SeqsUpTo(S, n - 1)
         IN  shorter \cup {Append(s, x) : s \in {t \in shorter : Len(t) = n - 1}, x \in S}

\* A file: whether it can be opened, and its lines.
Files == {[exists |-> FALSE, lines |-> <<>>]}
         \cup {[exists |-> TRUE, lines |-> l] : l \in SeqsUpTo(Lines, MaxLines)}

\* read_kernel_file: empty when the file cannot be opened or std::getline
\* extracts nothing (an empty file), the first line otherwise.
read_kernel_file(f) ==
    IF ~f.exists THEN ""
    ELSE IF f.lines = <<>> THEN ""
    ELSE Head(f.lines)

\* get_current_scheduler with the "unknown" fallback applied to an empty
\* state as well.
get_current_scheduler_UnknownState(sf, of) ==
    LET current_state == read_kernel_file(sf)
        current_sched == read_kernel_file(of)
    IN  IF current_state # "enabled" /\ current_state # ""
        THEN [value |-> current_state, ops_read |-> FALSE]
        ELSE IF current_state = "" \/ current_sched = ""
             THEN [value |-> "unknown", ops_read |-> current_state = "enabled"]
             ELSE [value |-> current_sched, ops_read |-> TRUE]

\* get_current_scheduler without the "unknown" fallback of lines 80-82.
get_current_scheduler_NoFallback(sf, of) ==
    LET current_state == read_kernel_file(sf)
        current_sched == read_kernel_file(of)
    IN  IF current_state # "enabled"
        THEN [value |-> current_state, ops_read |-> FALSE]
        ELSE [value |-> current_sched, ops_read |-> TRUE]

\* get_current_scheduler: the value it returns and whether it read the ops file.
get_current_scheduler(sf, of) ==
    LET current_state == read_kernel_file(sf)
        current_sched == read_kernel_file(of)
    IN  IF current_state # "enabled"
        THEN [value |-> current_state, ops_read |-> FALSE]
        ELSE IF current_sched = ""
             THEN [value |-> "unknown", ops_read |-> TRUE]
             ELSE [value |-> current_sched, ops_read |-> TRUE]


\* ------------------------------------------ scheduler window (on_apply)
\* Texts are sequences of tokens: a token stands for a run of characters
\* that sed and the code's searches treat as a unit.

\* Two of the names the constructor puts into schedext_combo_box.
SchedNames == {"scx_bpfland", "scx_rusty"}

\* What the user may type into schedext_flags_edit: blanks, an option, and
\* the two characters sed gives a meaning to inside s/.../.../.
FlagChars == {" ", "-v", "/", "&"}

FlagTexts == SeqsUpTo(FlagChars, MaxFlagLen)

\* QString::trimmed: the text without leading and trailing blanks.
RECURSIVE trimmed(_)
trimmed(t) ==
    IF t = <<>> THEN t
    ELSE IF Head(t) = " " THEN trimmed(Tail(t))
    ELSE IF t[Len(t)] = " " THEN trimmed(SubSeq(t, 1, Len(t) - 1))
    ELSE t

\* The contents /etc/default/scx starts with: the scheduler line and at most
\* one flags line, commented or not, with or without a value.
FlagsLines == {<<"#", "SCX_FLAGS=", "'", "-v", "'">>,
               <<"SCX_FLAGS=", "'", "-v", "'">>,
               <<"#", "SCX_FLAGS=">>,
               <<"SCX_FLAGS=">>}

ConfFiles == {<<(<<"SCX_SCHEDULER=", n>>)>> : n \in SchedNames}
             \cup {<<(<<"SCX_SCHEDULER=", n>>), f>> : n \in SchedNames, f \in FlagsLines}

TokensOf(l) == {l[i] : i \in 1..Len(l)}

FirstIndex(l, tok) ==
    IF tok \in TokensOf(l)
    THEN CHOOSE i \in 1..Len(l) : l[i] = tok /\ \A j \in 1..(i - 1) : l[j] # tok
    ELSE 0

\* One -e 's/.../.../' expression. kind tells the shape of the pattern:
\* "key" is s/KEY/repl/, "key_to_end" is s/KEY.*/repl/ and "whole_line" is
\* s/.*KEY.*/repl/.
SedExpr(kind, key, repl) == [kind |-> kind, key |-> key, repl |-> repl]

\* sed rejects an s command whose replacement holds an unescaped delimiter.
sed_malformed(e) == "/" \in TokensOf(e.repl)

\* In a replacement an unescaped & stands for the matched text.
RECURSIVE sed_expand(_, _)
sed_expand(repl, matched) ==
    IF repl = <<>> THEN <<>>
    ELSE (IF Head(repl) = "&" THEN matched ELSE <<Head(repl)>>)
         \o sed_expand(Tail(repl), matched)

\* The s command on one line: the leftmost match is replaced, .* is greedy.
sed_line(e, l) ==
    LET p == FirstIndex(l, e.key)
    IN  IF p = 0 THEN l
        ELSE IF e.kind = "key"
        THEN SubSeq(l, 1, p - 1) \o sed_expand(e.repl, <<e.key>>)
                                 \o SubSeq(l, p + 1, Len(l))
        ELSE IF e.kind = "key_to_end"
        THEN SubSeq(l, 1, p - 1) \o sed_expand(e.repl, SubSeq(l, p, Len(l)))
        ELSE sed_expand(e.repl, l)

RECURSIVE sed_file(_, _)
sed_file(exprs, conf) ==
    IF exprs = <<>> THEN conf
    ELSE sed_file(Tail(exprs),
                  [i \in 1..Len(conf) |-> sed_line(Head(exprs), conf[i])])

\* sed -e ... -i /etc/default/scx: the exit status and the file afterwards.
\* A malformed expression makes sed exit before it touches the file.
sed(exprs, conf) ==
    IF \E i \in 1..Len(exprs) : sed_malformed(exprs[i])
    THEN [ok |-> FALSE, conf |-> conf]
    ELSE [ok |-> TRUE, conf |-> sed_file(exprs, conf)]

is_scx_service_enabled(enabled_out) == enabled_out = "enabled"

is_scx_service_active(active_out) == active_out = "active"

\* service_cmd with the two subcommands exchanged.
service_cmd_Swapped(enabled_out) ==
    IF ~is_scx_service_enabled(enabled_out) THEN "restart" ELSE "enable --now"

\* on_apply's service_cmd lambda.
service_cmd(enabled_out) ==
    IF ~is_scx_service_enabled(enabled_out) THEN "enable --now" ELSE "restart"

\* on_apply's is_flags_commented lambda: "#SCX_FLAGS=" occurs in the file.
is_flags_commented(conf) ==
    \E i \in 1..Len(conf) : \E j \in 1..(Len(conf[i]) - 1) :
        conf[i][j] = "#" /\ conf[i][j + 1] = "SCX_FLAGS="

FlagsValue(text) == <<"SCX_FLAGS=", "'">> \o text \o <<"'">>

\* on_apply's get_scx_flags_sed lambda: the -e expressions about the flags.
get_scx_flags_sed(sched_flags_text, flags_commented) ==
    IF sched_flags_text = <<>> /\ ~flags_commented
    THEN <<SedExpr("key", "SCX_FLAGS=", <<"#", "SCX_FLAGS=">>)>>
    ELSE IF sched_flags_text # <<>> /\ flags_commented
    THEN <<SedExpr("whole_line", "SCX_FLAGS=", FlagsValue(sched_flags_text))>>
    ELSE IF sched_flags_text # <<>> /\ ~flags_commented
    THEN <<SedExpr("key_to_end", "SCX_FLAGS=", FlagsValue(sched_flags_text))>>
    ELSE <<>>

\* A process started through /usr/bin/pkexec: whether it is a bash -c
\* command line, the sed expressions of that line and the systemctl
\* subcommand it ends with.
Process(shell, exprs, subcmd) ==
    [program |-> "/usr/bin/pkexec", shell |-> shell, sed |-> exprs,
     systemctl |-> subcmd]

\* on_apply's sed_cmd.
sed_cmd(current_selected, scx_flags_sed, svc) ==
    Process(TRUE,
            <<SedExpr("key_to_end", "SCX_SCHEDULER=",
                      <<"SCX_SCHEDULER=", current_selected>>)>> \o scx_flags_sed,
            svc)

\* on_disable with the second test not in an else branch.
on_disable_BothBranches(enabled_out, active_out) ==
    (IF is_scx_service_enabled(enabled_out)
     THEN <<Process(FALSE, <<>>, "disable --now")>> ELSE <<>>)
    \o (IF is_scx_service_active(active_out)
        THEN <<Process(FALSE, <<>>, "stop")>> ELSE <<>>)

\* on_disable: the processes it starts.
on_disable(enabled_out, active_out) ==
    IF is_scx_service_enabled(enabled_out)
    THEN <<Process(FALSE, <<>>, "disable --now")>>
    ELSE IF is_scx_service_active(active_out)
    THEN <<Process(FALSE, <<>>, "stop")>>
    ELSE <<>>

\* Nothing has happened in the main window yet.
HistoryEmpty ==
    /\ closeSetRunning = FALSE
    /\ seenLists = {}
    /\ backAtConfirm = {}

\* The scheduler window has not read the files under /sys/kernel/sched_ext.
SysfsUntouched ==
    /\ state_file = [exists |-> FALSE, lines |-> <<>>]
    /\ ops_file = [exists |-> FALSE, lines |-> <<>>]
    /\ current_sched_label = ""
    /\ ops_read = FALSE

\* Neither button of the scheduler window has been clicked.
ApplyUntouched ==
    /\ scx_conf = <<>>
    /\ svc_enabled_out = "disabled"
    /\ svc_active_out = "inactive"
    /\ flags_edit = <<>>
    /\ combo_current = "scx_bpfland"
    /\ apply_button = TRUE
    /\ disable_button = TRUE
    /\ launched = <<>>
    /\ proc = "none"
    /\ handler = "none"
    /\ conf_before = <<>>

\* ------------------------------------------------------------ main window
\* Tree population of the constructor: an installed kernel whose installed
\* database is its repository gets an immutable, checked item; every other
\* item is unchecked and not immutable.
TreeItemsOk ==
    /\ \A k \in Kernels : update_available[k] => installed[k]
    /\ \A k \in Kernels : immutable[k] => installed[k]
    /\ checked = immutable

Init ==
    /\ m_running = FALSE
    /\ m_thread_running \in BOOLEAN
    /\ m_change_list = <<>>
    /\ ok_enabled \in BOOLEAN
    /\ installed \in [Kernels -> BOOLEAN]
    /\ update_available \in [Kernels -> BOOLEAN]
    /\ immutable \in [Kernels -> BOOLEAN]
    /\ checked \in [Kernels -> BOOLEAN]
    /\ TreeItemsOk
    /\ handle_released = 0
    /\ exit_requested = FALSE
    /\ uipc = "idle"
    /\ wpc = "notstarted"
    /\ change_list = <<>>
    /\ idx = 0
    /\ nExec = 0
    /\ txlog = <<>>
    /\ uiLast = "none"
    /\ immToggles = [k \in Kernels |-> 0]
    /\ committedClean = FALSE
    /\ HistoryEmpty
    /\ SysfsUntouched
    /\ ApplyUntouched

\* buildChangeList with the removeOne of line 194 left out.
buildChangeList_NoRemove(list, ok, name, imm, chk) ==
    IF imm /\ ~chk
    THEN [list |-> Append(list, name), ok |-> TRUE]
    ELSE LET l2 == IF chk THEN Append(list, name) ELSE list
             ok2 == IF chk THEN TRUE ELSE ok
         IN  [list |-> l2, ok |-> IF l2 = <<>> THEN FALSE ELSE ok2]

\* buildChangeList: the change list and the state of the ok button after a
\* checkbox change of the item `name` (imm: its Immutable column, chk: its new
\* check state).
buildChangeList(list, ok, name, imm, chk) ==
    IF imm /\ ~chk
    THEN [list |-> Append(list, name), ok |-> TRUE]
    ELSE LET l2 == IF chk THEN Append(list, name) ELSE RemoveOne(list, name)
             ok2 == IF chk THEN TRUE ELSE ok
         IN  [list |-> l2, ok |-> IF l2 = <<>> THEN FALSE ELSE ok2]

\* m_cv.notify_all(): every thread blocked in m_cv.wait is made runnable; it
\* re-acquires the mutex and evaluates the predicate again.
notify_all(w) == IF w = "blocked" THEN "pred" ELSE w

\* A start() that runs the worker function again on every call.
ThreadStarts_Always(w) == TRUE

\* QThread::start(): starts the thread, whose started() signal invokes
\* Work::doHeavyCalculations; does nothing when the thread already runs.
ThreadStarts(w) == w = "notstarted"

\* closeEvent without the alpm_release call.
ReleaseHandle_Skipped(n) == n

\* alpm_release(m_handle) in closeEvent.
ReleaseHandle(n) == n + 1

\* m_mutex on the worker's side: locked by the unique_lock of line 72, given
\* up by m_cv.wait while the worker is blocked and by the lock's destructor
\* at the end of the iteration.
MutexHeldByWorker(w) ==
    w \in {"pred", "towait", "chk_running", "chk_alive", "tx_disable",
           "snap_alloc", "snap_copy", "install", "remove", "commit", "clear",
           "enable"}

\* m_mutex on the UI thread's side: neither on_execute nor closeEvent nor
\* buildChangeList locks it.
MutexHeldByUi(u) == FALSE

\* A closeEvent that lets a transaction in progress finish before it
\* releases the handle.
ReleaseReady_AfterTransaction(w) ==
    w \notin {"tx_disable", "snap_alloc", "snap_copy", "install", "remove",
              "commit", "clear", "enable"}

\* closeEvent between lines 206 and 209: nothing joins the worker thread or
\* waits for it, alpm_release runs whatever the worker is doing.
ReleaseReady(w) == TRUE

\* on_execute without the test of m_running.
ExecuteReturnsEarly_Never(running) == FALSE

\* on_execute's early return.
ExecuteReturnsEarly(running) == running

\* ---- UI thread
\* item_changed(item) -> buildChangeList(item), after the user flipped the
\* check state of the item of kernel k.
ItemChanged(k) ==
    /\ uipc = "idle"
    /\ LET chk == ~checked[k]
           r == buildChangeList(m_change_list, ok_enabled, k, immutable[k], chk)
       IN  /\ Len(r.list) <= MaxList
           /\ checked' = [checked EXCEPT ![k] = chk]
           /\ m_change_list' = r.list
           /\ ok_enabled' = r.ok
    /\ immToggles' = [immToggles EXCEPT ![k] = IF immutable[k] THEN @ + 1 ELSE @]
    /\ committedClean' = FALSE
    /\ uiLast' = "none"
    /\ UNCHANGED <<m_running, m_thread_running, immutable, installed,
                   update_available, handle_released, exit_requested, uipc, wpc,
                   change_list, idx, nExec, txlog>>
    /\ seenLists' = IF wpc = "snap_copy" THEN seenLists \cup {m_change_list'}
                    ELSE seenLists
    /\ backAtConfirm' = backAtConfirm \ {k}
    /\ UNCHANGED closeSetRunning
    /\ UNCHANGED schedvars

\* on_execute, line 228: the click on ok, the load of m_running and the
\* early return.
OnExecute ==
    /\ uipc = "idle"
    /\ ok_enabled
    /\ IF ExecuteReturnsEarly(m_running)
       THEN /\ uiLast' = "rejected"
            /\ UNCHANGED uipc
       ELSE /\ uiLast' = "none"
            /\ uipc' = "ex_store_running"
    /\ UNCHANGED <<m_running, m_thread_running, m_change_list, ok_enabled,
                   checked, immutable, installed, update_available,
                   handle_released, exit_requested, wpc, change_list, idx,
                   nExec, txlog, immToggles, committedClean>>
    /\ backAtConfirm' =
           IF ExecuteReturnsEarly(m_running) THEN backAtConfirm
           ELSE {k \in Kernels : /\ checked[k] = immutable[k]
                                 /\ immutable[k] => immToggles[k] > 0}
    /\ UNCHANGED <<closeSetRunning, seenLists>>
    /\ UNCHANGED schedvars

\* on_execute, line 230: m_running.store(true).
OnExecuteStoreRunning ==
    /\ uipc = "ex_store_running"
    /\ m_running' = TRUE
    /\ uipc' = "ex_store_alive"
    /\ UNCHANGED <<m_thread_running, m_change_list, ok_enabled, checked,
                   immutable, installed, update_available, handle_released,
                   exit_requested, wpc, change_list, idx, nExec, txlog, uiLast, immToggles, committedClean>>
    /\ UNCHANGED histvars
    /\ UNCHANGED schedvars

\* on_execute, line 231: m_thread_running.store(true).
OnExecuteStoreAlive ==
    /\ uipc = "ex_store_alive"
    /\ m_thread_running' = TRUE
    /\ uipc' = "ex_notify"
    /\ UNCHANGED <<m_running, m_change_list, ok_enabled, checked, immutable,
                   installed, update_available, handle_released,
                   exit_requested, wpc, change_list, idx, nExec, txlog, uiLast, immToggles, committedClean>>
    /\ UNCHANGED histvars
    /\ UNCHANGED schedvars

\* on_execute, line 232: m_cv.notify_all().
OnExecuteNotify ==
    /\ uipc = "ex_notify"
    /\ wpc' = notify_all(wpc)
    /\ uipc' = "ex_start"
    /\ UNCHANGED <<m_running, m_thread_running, m_change_list, ok_enabled,
                   checked, immutable, installed, update_available,
                   handle_released, exit_requested, change_list, idx, nExec,
                   txlog, uiLast, immToggles,
                   committedClean>>
    /\ UNCHANGED histvars
    /\ UNCHANGED schedvars

\* on_execute, line 233: m_worker_th->start().
OnExecuteStart ==
    /\ uipc = "ex_start"
    /\ IF ThreadStarts(wpc)
       THEN /\ wpc' = "loop"
            /\ nExec' = nExec + 1
       ELSE UNCHANGED <<wpc, nExec>>
    /\ uipc' = "idle"
    /\ UNCHANGED <<m_running, m_thread_running, m_change_list, ok_enabled,
                   checked, immutable, installed, update_available,
                   handle_released, exit_requested, change_list, idx,
                   txlog, uiLast, immToggles,
                   committedClean>>
    /\ UNCHANGED histvars
    /\ UNCHANGED schedvars

\* closeEvent, line 204: m_running.store(true).
CloseEvent ==
    /\ uipc = "idle"
    /\ m_running' = TRUE
    /\ uipc' = "cl_store_alive"
    /\ uiLast' = "none"
    /\ UNCHANGED <<m_thread_running, m_change_list, ok_enabled, checked,
                   immutable, installed, update_available, handle_released,
                   exit_requested, wpc, change_list, idx, nExec, txlog, immToggles, committedClean>>
    /\ closeSetRunning' = ~m_running
    /\ UNCHANGED <<seenLists, backAtConfirm>>
    /\ UNCHANGED schedvars

\* closeEvent, line 205: m_thread_running.store(false).
CloseEventStoreAlive ==
    /\ uipc = "cl_store_alive"
    /\ m_thread_running' = FALSE
    /\ uipc' = "cl_notify"
    /\ UNCHANGED <<m_running, m_change_list, ok_enabled, checked, immutable,
                   installed, update_available, handle_released,
                   exit_requested, wpc, change_list, idx, nExec, txlog, uiLast, immToggles, committedClean>>
    /\ UNCHANGED histvars
    /\ UNCHANGED schedvars

\* closeEvent, line 206: m_cv.notify_all().
CloseEventNotify ==
    /\ uipc = "cl_notify"
    /\ wpc' = notify_all(wpc)
    /\ uipc' = "cl_release"
    /\ UNCHANGED <<m_running, m_thread_running, m_change_list, ok_enabled,
                   checked, immutable, installed, update_available,
                   handle_released, exit_requested, change_list, idx, nExec,
                   txlog, uiLast, immToggles,
                   committedClean>>
    /\ UNCHANGED histvars
    /\ UNCHANGED schedvars

\* closeEvent, lines 209-212: alpm_release(m_handle), QWidget::closeEvent.
CloseEventRelease ==
    /\ uipc = "cl_release"
    /\ ReleaseReady(wpc)
    /\ handle_released' = ReleaseHandle(handle_released)
    /\ uipc' = "closed"
    /\ UNCHANGED <<m_running, m_thread_running, m_change_list, ok_enabled,
                   checked, immutable, installed, update_available,
                   exit_requested, wpc, change_list, idx, nExec, txlog, uiLast, immToggles, committedClean>>
    /\ UNCHANGED histvars
    /\ UNCHANGED schedvars

\* ~MainWindow: m_worker_th->exit().
Destructor ==
    /\ uipc = "closed"
    /\ exit_requested' = TRUE
    /\ uipc' = "destroyed"
    /\ UNCHANGED <<m_running, m_thread_running, m_change_list, ok_enabled,
                   checked, immutable, installed, update_available,
                   handle_released, wpc, change_list, idx, nExec, txlog, uiLast, immToggles, committedClean>>
    /\ UNCHANGED histvars
    /\ UNCHANGED schedvars


\* ---- worker thread (the lambda of lines 70-93)
\* install_packages, line 40: the kernel is known and is not installed or has
\* an update.
InstallEligible(selected) ==
    /\ selected \in Kernels
    /\ (~installed[selected] \/ update_available[selected])

\* remove_packages, line 52: the kernel is known and is installed.
RemoveEligible(selected) ==
    /\ selected \in Kernels
    /\ installed[selected]

\* Loops that stop at the first package whose install or remove failed.
NextSelected_AbortOnFailure(i, n, ok) == IF ok THEN i + 1 ELSE n + 1

\* The loop index after the body of the loops of install_packages and
\* remove_packages ran for element i of a list of n; ok is the result of
\* Kernel::install / Kernel::remove (TRUE when none was called).
NextSelected(i, n, ok) == i + 1

\* A transaction that removes before it installs.
TxOrder_RemoveFirst == <<"tx_disable", "snap_alloc", "snap_copy", "remove",
                         "install", "commit", "clear", "enable">>

\* The order of the statements of a transaction, lines 78-90.
TxOrder == <<"tx_disable", "snap_alloc", "snap_copy", "install", "remove",
             "commit", "clear", "enable">>

\* The statement after statement p of the transaction.
TxAfter(p) ==
    LET i == CHOOSE j \in 1..Len(TxOrder) : TxOrder[j] = p
    IN  TxOrder[i + 1]

\* Line 77: the transaction runs when both flags are read true.
TxCondition(running, alive) == running /\ alive

\* The packages of the entries of the log with operation op that succeeded.
Succeeded(log, op) ==
    {log[i].pkg : i \in {j \in 1..Len(log) : log[j].op = op /\ log[j].ok}}

\* Kernel::commit_transaction: when the transaction succeeds, the kernels
\* added for removal are no longer installed and the kernels added for
\* installation are installed and up to date.
CommitInstalled(log, ok) ==
    [k \in Kernels |->
        IF ~ok THEN installed[k]
        ELSE IF k \in Succeeded(log, "remove") THEN FALSE
        ELSE IF k \in Succeeded(log, "install") THEN TRUE
        ELSE installed[k]]

CommitUpdate(log, ok) ==
    [k \in Kernels |->
        IF ~ok THEN update_available[k]
        ELSE IF k \in Succeeded(log, "remove") THEN FALSE
        ELSE IF k \in Succeeded(log, "install") THEN FALSE
        ELSE update_available[k]]

\* Line 71: while (m_thread_running.load()).
WorkerLoop ==
    /\ wpc = "loop"
    /\ wpc' = IF m_thread_running THEN "lock" ELSE "done"
    /\ txlog' = <<>>
    /\ UNCHANGED <<m_running, m_thread_running, m_change_list, ok_enabled,
                   checked, immutable, installed, update_available,
                   handle_released, exit_requested, uipc, change_list, idx,
                   nExec, uiLast, immToggles,
                   committedClean>>
    /\ UNCHANGED histvars
    /\ UNCHANGED schedvars

\* Line 72: std::unique_lock<std::mutex> lock(m_mutex).
WorkerLock ==
    /\ wpc = "lock"
    /\ wpc' = "pred"
    /\ UNCHANGED <<m_running, m_thread_running, m_change_list, ok_enabled,
                   checked, immutable, installed, update_available,
                   handle_released, exit_requested, uipc, change_list, idx,
                   nExec, txlog, uiLast, immToggles,
                   committedClean>>
    /\ UNCHANGED histvars
    /\ UNCHANGED schedvars

\* Line 75: the predicate of m_cv.wait, evaluated with the mutex held.
WorkerPred ==
    /\ wpc = "pred"
    /\ wpc' = IF m_running THEN "chk_running" ELSE "towait"
    /\ UNCHANGED <<m_running, m_thread_running, m_change_list, ok_enabled,
                   checked, immutable, installed, update_available,
                   handle_released, exit_requested, uipc, change_list, idx,
                   nExec, txlog, uiLast, immToggles,
                   committedClean>>
    /\ UNCHANGED histvars
    /\ UNCHANGED schedvars

\* Line 75: the predicate was false; the wait releases the mutex and blocks.
WorkerBlock ==
    /\ wpc = "towait"
    /\ wpc' = "blocked"
    /\ UNCHANGED <<m_running, m_thread_running, m_change_list, ok_enabled,
                   checked, immutable, installed, update_available,
                   handle_released, exit_requested, uipc, change_list, idx,
                   nExec, txlog, uiLast, immToggles,
                   committedClean>>
    /\ UNCHANGED histvars
    /\ UNCHANGED schedvars

\* Line 75: a spurious wakeup of std::condition_variable::wait.
WorkerSpuriousWake ==
    /\ wpc = "blocked"
    /\ wpc' = "pred"
    /\ UNCHANGED <<m_running, m_thread_running, m_change_list, ok_enabled,
                   checked, immutable, installed, update_available,
                   handle_released, exit_requested, uipc, change_list, idx,
                   nExec, txlog, uiLast, immToggles,
                   committedClean>>
    /\ UNCHANGED histvars
    /\ UNCHANGED schedvars

\* Line 77, left operand: m_running.load().
WorkerCheckRunning ==
    /\ wpc = "chk_running"
    /\ wpc' = IF TxCondition(m_running, TRUE) THEN "chk_alive" ELSE "loop"
    /\ UNCHANGED <<m_running, m_thread_running, m_change_list, ok_enabled,
                   checked, immutable, installed, update_available,
                   handle_released, exit_requested, uipc, change_list, idx,
                   nExec, txlog, uiLast, immToggles,
                   committedClean>>
    /\ UNCHANGED histvars
    /\ UNCHANGED schedvars

\* Line 77, right operand: m_thread_running.load().
WorkerCheckAlive ==
    /\ wpc = "chk_alive"
    /\ wpc' = IF TxCondition(TRUE, m_thread_running) THEN TxOrder[1] ELSE "loop"
    /\ UNCHANGED <<m_running, m_thread_running, m_change_list, ok_enabled,
                   checked, immutable, installed, update_available,
                   handle_released, exit_requested, uipc, change_list, idx,
                   nExec, txlog, uiLast, immToggles,
                   committedClean>>
    /\ UNCHANGED histvars
    /\ UNCHANGED schedvars

\* Line 78: m_ui->ok->setEnabled(false).
WorkerDisableOk ==
    /\ wpc = "tx_disable"
    /\ ok_enabled' = FALSE
    /\ txlog' = Append(txlog, Entry("disable", "", TRUE))
    /\ wpc' = TxAfter("tx_disable")
    /\ UNCHANGED <<m_running, m_thread_running, m_change_list, checked,
                   immutable, installed, update_available, handle_released,
                   exit_requested, uipc, change_list, idx, nExec, uiLast, immToggles, committedClean>>
    /\ UNCHANGED histvars
    /\ UNCHANGED schedvars

\* Line 80: the vector is created with m_change_list.size() empty strings.
WorkerSnapAlloc ==
    /\ wpc = "snap_alloc"
    /\ change_list' = [i \in 1..Len(m_change_list) |-> ""]
    /\ idx' = 1
    /\ wpc' = TxAfter("snap_alloc")
    /\ UNCHANGED <<m_running, m_thread_running, m_change_list, ok_enabled,
                   checked, immutable, installed, update_available,
                   handle_released, exit_requested, uipc, nExec, txlog, uiLast, immToggles, committedClean>>
    /\ seenLists' = {m_change_list}
    /\ UNCHANGED <<closeSetRunning, backAtConfirm>>
    /\ UNCHANGED schedvars

\* Lines 81-83: one iteration of the copy loop.  The loop condition reads
\* m_change_list.size() again; a store past the end of the vector (the list
\* grew after line 80) is undefined: the worker crashes or goes on.
WorkerSnapCopy ==
    /\ wpc = "snap_copy"
    /\ IF idx <= Len(m_change_list)
       THEN IF idx <= Len(change_list)
            THEN /\ change_list' = [change_list EXCEPT ![idx] = m_change_list[idx]]
                 /\ idx' = idx + 1
                 /\ UNCHANGED <<wpc, txlog>>
            ELSE /\ \/ wpc' = "crashed" /\ idx' = 0
                    \/ wpc' = wpc /\ idx' = idx + 1
                 /\ UNCHANGED <<change_list, txlog>>
       ELSE /\ idx' = 1
            /\ wpc' = TxAfter("snap_copy")
            /\ txlog' = Append(txlog, Entry("snapshot", "", TRUE))
            /\ UNCHANGED change_list
    /\ UNCHANGED <<m_running, m_thread_running, m_change_list, ok_enabled,
                   checked, immutable, installed, update_available,
                   handle_released, exit_requested, uipc, nExec, uiLast, immToggles, committedClean>>
    /\ UNCHANGED histvars
    /\ UNCHANGED schedvars

\* Line 85, install_packages: one iteration of its loop; Kernel::install
\* succeeds or fails.
WorkerInstall ==
    /\ wpc = "install"
    /\ IF idx <= Len(change_list)
       THEN \E ok \in BOOLEAN :
               /\ IF InstallEligible(change_list[idx])
                  THEN txlog' = Append(txlog, Entry("install", change_list[idx], ok))
                  ELSE ok /\ UNCHANGED txlog
               /\ idx' = NextSelected(idx, Len(change_list), ok)
               /\ UNCHANGED wpc
       ELSE /\ idx' = 1
            /\ wpc' = TxAfter("install")
            /\ UNCHANGED txlog
    /\ UNCHANGED <<m_running, m_thread_running, m_change_list, ok_enabled,
                   checked, immutable, installed, update_available,
                   handle_released, exit_requested, uipc, change_list, nExec,
                   uiLast, immToggles, committedClean>>
    /\ seenLists' = {}
    /\ UNCHANGED <<closeSetRunning, backAtConfirm>>
    /\ UNCHANGED schedvars

\* Line 86, remove_packages: one iteration of its loop; Kernel::remove
\* succeeds or fails.
WorkerRemove ==
    /\ wpc = "remove"
    /\ IF idx <= Len(change_list)
       THEN \E ok \in BOOLEAN :
               /\ IF RemoveEligible(change_list[idx])
                  THEN txlog' = Append(txlog, Entry("remove", change_list[idx], ok))
                  ELSE ok /\ UNCHANGED txlog
               /\ idx' = NextSelected(idx, Len(change_list), ok)
               /\ UNCHANGED wpc
       ELSE /\ idx' = 1
            /\ wpc' = TxAfter("remove")
            /\ UNCHANGED txlog
    /\ UNCHANGED <<m_running, m_thread_running, m_change_list, ok_enabled,
                   checked, immutable, installed, update_available,
                   handle_released, exit_requested, uipc, change_list, nExec,
                   uiLast, immToggles, committedClean>>
    /\ seenLists' = {}
    /\ UNCHANGED <<closeSetRunning, backAtConfirm>>
    /\ UNCHANGED schedvars

\* Line 87: Kernel::commit_transaction(), which succeeds or fails.
WorkerCommit ==
    /\ wpc = "commit"
    /\ \E ok \in BOOLEAN :
          /\ installed' = CommitInstalled(txlog, ok)
          /\ update_available' = CommitUpdate(txlog, ok)
          /\ txlog' = Append(txlog, Entry("commit", "", ok))
    /\ committedClean' = TRUE
    /\ wpc' = TxAfter("commit")
    /\ UNCHANGED <<m_running, m_thread_running, m_change_list, ok_enabled,
                   checked, immutable, handle_released, exit_requested, uipc,
                   change_list, idx, nExec, uiLast, immToggles>>
    /\ UNCHANGED histvars
    /\ UNCHANGED schedvars

\* Line 89: m_running.store(false).
WorkerClearRunning ==
    /\ wpc = "clear"
    /\ m_running' = FALSE
    /\ txlog' = Append(txlog, Entry("clear", "", TRUE))
    /\ wpc' = TxAfter("clear")
    /\ UNCHANGED <<m_thread_running, m_change_list, ok_enabled, checked,
                   immutable, installed, update_available, handle_released,
                   exit_requested, uipc, change_list, idx, nExec, uiLast, immToggles, committedClean>>
    /\ closeSetRunning' = FALSE
    /\ backAtConfirm' = {}
    /\ UNCHANGED seenLists
    /\ UNCHANGED schedvars

\* Lines 90-92: m_ui->ok->setEnabled(true); the vector and the lock go out
\* of scope.
WorkerEnableOk ==
    /\ wpc = "enable"
    /\ ok_enabled' = TRUE
    /\ txlog' = Append(txlog, Entry("enable", "", TRUE))
    /\ change_list' = <<>>
    /\ wpc' = "loop"
    /\ UNCHANGED <<m_running, m_thread_running, m_change_list, checked,
                   immutable, installed, update_available, handle_released,
                   exit_requested, uipc, idx, nExec, uiLast, immToggles, committedClean>>
    /\ UNCHANGED histvars
    /\ UNCHANGED schedvars

\* The lambda returned and ~MainWindow asked the thread's event loop to exit.
WorkerThreadFinish ==
    /\ wpc = "done"
    /\ exit_requested
    /\ wpc' = "finished"
    /\ UNCHANGED <<m_running, m_thread_running, m_change_list, ok_enabled,
                   checked, immutable, installed, update_available,
                   handle_released, exit_requested, uipc, change_list, idx,
                   nExec, txlog, uiLast, immToggles,
                   committedClean>>
    /\ UNCHANGED histvars
    /\ UNCHANGED schedvars

Next ==
    \/ \E k \in Kernels : ItemChanged(k)
    \/ OnExecute
    \/ OnExecuteStoreRunning
    \/ OnExecuteStoreAlive
    \/ OnExecuteNotify
    \/ OnExecuteStart
    \/ CloseEvent
    \/ CloseEventStoreAlive
    \/ CloseEventNotify
    \/ CloseEventRelease
    \/ Destructor
    \/ WorkerLoop
    \/ WorkerLock
    \/ WorkerPred
    \/ WorkerBlock
    \/ WorkerSpuriousWake
    \/ WorkerCheckRunning
    \/ WorkerCheckAlive
    \/ WorkerDisableOk
    \/ WorkerSnapAlloc
    \/ WorkerSnapCopy
    \/ WorkerInstall
    \/ WorkerRemove
    \/ WorkerCommit
    \/ WorkerClearRunning
    \/ WorkerEnableOk
    \/ WorkerThreadFinish

Spec == Init /\ [][Next]_vars


\* -------------------------------------------------------- scheduler window
\* The main window of a run of the scheduler window: nothing was toggled or
\* confirmed.
MainWindowUntouched ==
    /\ m_running = FALSE
    /\ m_thread_running = TRUE
    /\ m_change_list = <<>>
    /\ ok_enabled = FALSE
    /\ installed = [k \in Kernels |-> FALSE]
    /\ update_available = [k \in Kernels |-> FALSE]
    /\ immutable = [k \in Kernels |-> FALSE]
    /\ checked = [k \in Kernels |-> FALSE]
    /\ handle_released = 0
    /\ exit_requested = FALSE
    /\ uipc = "idle"
    /\ wpc = "notstarted"
    /\ change_list = <<>>
    /\ idx = 0
    /\ nExec = 0
    /\ txlog = <<>>
    /\ uiLast = "none"
    /\ immToggles = [k \in Kernels |-> 0]
    /\ committedClean = FALSE
    /\ HistoryEmpty

\* SchedExtWindow::SchedExtWindow, line 119: the label shows the scheduler
\* read from the two files as they are when the window opens.
SchedInit ==
    /\ MainWindowUntouched
    /\ ApplyUntouched
    /\ state_file \in Files
    /\ ops_file \in Files
    /\ current_sched_label = get_current_scheduler(state_file, ops_file).value
    /\ ops_read = get_current_scheduler(state_file, ops_file).ops_read

\* update_current_sched, on a tick of m_sched_timer after the kernel rewrote
\* /sys/kernel/sched_ext/state.
UpdateAfterStateChange ==
    /\ state_file' \in Files
    /\ ops_file' = ops_file
    /\ current_sched_label' = get_current_scheduler(state_file', ops_file').value
    /\ ops_read' = get_current_scheduler(state_file', ops_file').ops_read
    /\ UNCHANGED <<kmvars, applyvars>>

\* update_current_sched, on a tick of m_sched_timer after the kernel rewrote
\* /sys/kernel/sched_ext/root/ops.
UpdateAfterOpsChange ==
    /\ ops_file' \in Files
    /\ state_file' = state_file
    /\ current_sched_label' = get_current_scheduler(state_file', ops_file').value
    /\ ops_read' = get_current_scheduler(state_file', ops_file').ops_read
    /\ UNCHANGED <<kmvars, applyvars>>

SchedNext ==
    \/ UpdateAfterStateChange
    \/ UpdateAfterOpsChange

SchedSpec == SchedInit /\ [][SchedNext]_vars


\* ------------------------------------------- scheduler window: the buttons
\* The scheduler window as it opens on some /etc/default/scx and some state
\* of the scx service.
ApplyInit ==
    /\ MainWindowUntouched
    /\ SysfsUntouched
    /\ scx_conf \in ConfFiles
    /\ svc_enabled_out \in {"enabled", "disabled"}
    /\ svc_active_out \in {"active", "inactive"}
    /\ flags_edit = <<>>
    /\ combo_current = "scx_bpfland"
    /\ apply_button = TRUE
    /\ disable_button = TRUE
    /\ launched = <<>>
    /\ proc = "none"
    /\ handler = "none"
    /\ conf_before = <<>>

\* on_apply, with the flags text and the combo box entry the user left in the
\* widgets. The buttons are disabled at entry and enabled again at exit.
OnApply ==
    /\ apply_button
    /\ proc # "launched"
    /\ \E text \in FlagTexts, selected \in SchedNames :
          LET flags_commented == is_flags_commented(scx_conf)
              sched_flags_text == trimmed(text)
              scx_flags_sed == get_scx_flags_sed(sched_flags_text, flags_commented)
          IN  /\ flags_edit' = text
              /\ combo_current' = selected
              /\ launched' = <<sed_cmd(selected, scx_flags_sed,
                                       service_cmd(svc_enabled_out))>>
    /\ proc' = "launched"
    /\ handler' = "on_apply"
    /\ apply_button' = TRUE
    /\ disable_button' = TRUE
    /\ UNCHANGED <<scx_conf, svc_enabled_out, svc_active_out, conf_before>>
    /\ UNCHANGED <<kmvars, sysfsvars>>

\* on_disable. The buttons are disabled at entry and enabled again at exit.
OnDisable ==
    /\ disable_button
    /\ proc # "launched"
    /\ launched' = on_disable(svc_enabled_out, svc_active_out)
    /\ proc' = IF launched' = <<>> THEN "none" ELSE "launched"
    /\ handler' = "on_disable"
    /\ apply_button' = TRUE
    /\ disable_button' = TRUE
    /\ UNCHANGED <<scx_conf, svc_enabled_out, svc_active_out, flags_edit,
                   combo_current, conf_before>>
    /\ UNCHANGED <<kmvars, sysfsvars>>

\* What systemctl <subcmd> scx does to the service.
SystemctlEnabled(subcmd, enabled_out) ==
    IF subcmd = "enable --now" THEN "enabled"
    ELSE IF subcmd = "disable --now" THEN "disabled"
    ELSE enabled_out

SystemctlActive(subcmd, active_out) ==
    IF subcmd \in {"enable --now", "restart"} THEN "active"
    ELSE IF subcmd \in {"disable --now", "stop"} THEN "inactive"
    ELSE active_out

\* The detached process runs after pkexec let it: sed edits the file in
\* place and, joined with &&, systemctl runs when sed succeeded.
ProcessRuns ==
    /\ proc = "launched"
    /\ LET p == Head(launched)
           r == sed(p.sed, scx_conf)
       IN  /\ \A i \in 1..Len(r.conf) : Len(r.conf[i]) <= MaxLineLen
           /\ scx_conf' = r.conf
           /\ svc_enabled_out' = IF r.ok THEN SystemctlEnabled(p.systemctl, svc_enabled_out)
                                 ELSE svc_enabled_out
           /\ svc_active_out' = IF r.ok THEN SystemctlActive(p.systemctl, svc_active_out)
                                ELSE svc_active_out
    /\ conf_before' = scx_conf
    /\ proc' = "ran"
    /\ UNCHANGED <<flags_edit, combo_current, apply_button, disable_button,
                   launched, handler>>
    /\ UNCHANGED <<kmvars, sysfsvars>>

\* pkexec refuses (the user dismisses the authentication dialog): nothing runs.
ProcessDenied ==
    /\ proc = "launched"
    /\ proc' = "denied"
    /\ UNCHANGED <<scx_conf, svc_enabled_out, svc_active_out, flags_edit,
                   combo_current, apply_button, disable_button, launched,
                   handler, conf_before>>
    /\ UNCHANGED <<kmvars, sysfsvars>>

ApplyNext ==
    \/ OnApply
    \/ OnDisable
    \/ ProcessRuns
    \/ ProcessDenied

ApplySpec == ApplyInit /\ [][ApplyNext]_vars


\* ================================================================= claims
\* The statements of a transaction (lines 78-90).
InTransaction == wpc \in {TxOrder[i] : i \in 1..Len(TxOrder)}

\* closeEvent has returned.
Closed == uipc \in {"closed", "destroyed"}

\* C1: an accepted on_execute is never lost: once on_execute has returned
\* (the UI thread is idle again) the worker is not left blocked on the
\* condition variable while m_running is true.
C1_NoLostConfirmation ==
    ~(uipc = "idle" /\ wpc = "blocked" /\ m_running)

\* C2: after closeEvent has run, a started worker is never parked on the
\* condition variable with the wait's predicate false, a state it cannot
\* leave: nothing stores to m_running or notifies m_cv any more.
C2_WorkerLeavesLoop ==
    ~(Closed /\ wpc = "blocked" /\ ~m_running)


\* C3 as stated: the change list holds exactly the checked, non-immutable
\* items, each once, and no unchecked or immutable item.
C3_ListIsCheckedNonImmutable ==
    \A k \in Kernels :
        Count(k, m_change_list) = IF checked[k] /\ ~immutable[k] THEN 1 ELSE 0

\* C3 as amended: the change list holds a non-immutable item exactly once when
\* it is checked and not at all when it is unchecked, and holds an immutable
\* item once per checkbox change of that item; it holds nothing else.
C3_ChangeListTracksToggles ==
    /\ \A i \in 1..Len(m_change_list) : m_change_list[i] \in Kernels
    /\ \A k \in Kernels :
          Count(k, m_change_list) =
              IF immutable[k] THEN immToggles[k]
              ELSE IF checked[k] THEN 1 ELSE 0

\* An immutable item was unchecked and a non-immutable one checked.
C3_Witness ==
    \E k1, k2 \in Kernels :
        /\ immutable[k1] /\ ~checked[k1] /\ Count(k1, m_change_list) = 1
        /\ ~immutable[k2] /\ checked[k2] /\ Count(k2, m_change_list) = 1

\* C4: an on_execute called while m_running is true returns at once: the UI
\* thread does not enter the body of on_execute, and the call writes neither
\* flag, wakes no waiter and starts no thread.
C4_RejectedExecuteIsNoOp ==
    /\ [][(uipc = "idle" /\ m_running) => uipc' \in {"idle", "cl_store_alive"}]_vars
    /\ [][(OnExecute /\ m_running) =>
             UNCHANGED <<m_running, m_thread_running, wpc, nExec, uipc,
                         m_change_list, ok_enabled, handle_released, txlog>>]_vars

\* on_execute returned early while a transaction was running.
C4_Witness ==
    uiLast = "rejected" /\ m_running /\ uipc = "idle" /\ wpc = "install"

\* C5: the handle is released exactly once by closeEvent, whatever the worker
\* is doing, and by nothing else: the number of releases is 0 until
\* closeEvent releases and 1 from then on.
C5_HandleReleasedOncePerClose ==
    handle_released = IF Closed THEN 1 ELSE 0

\* The window was closed while the worker was installing.
C5_Witness ==
    Closed /\ handle_released = 1 /\ wpc = "install"

\* C6: the worker function is invoked at most once, however often on_execute
\* calls start(), and every step of a transaction is a step of that one
\* invocation.
C6_SingleExecutor ==
    /\ nExec <= 1
    /\ (txlog # <<>> \/ InTransaction) => nExec = 1

\* A second on_execute was accepted and returned (start() included) and its
\* transaction is about to commit.
C6_Witness ==
    uipc = "idle" /\ committedClean /\ wpc = "commit" /\ nExec = 1

\* The position of a step in a transaction.
Rank(op) ==
    CASE op = "disable" -> 0
      [] op = "snapshot" -> 1
      [] op = "install" -> 2
      [] op = "remove" -> 3
      [] op = "commit" -> 4
      [] op = "clear" -> 5
      [] op = "enable" -> 6

HasOp(log, op) == \E i \in 1..Len(log) : log[i].op = op

\* The steps logged so far are in the order of C7, the steps that occur once
\* occur once, and none was skipped.
TxLogOrdered ==
    /\ \A i, j \in 1..Len(txlog) :
          i < j => /\ Rank(txlog[i].op) <= Rank(txlog[j].op)
                   /\ (txlog[i].op = txlog[j].op
                          => txlog[i].op \in {"install", "remove"})
    /\ txlog # <<>> => txlog[1].op = "disable"
    /\ (\E i \in 1..Len(txlog) : Rank(txlog[i].op) >= 2) => HasOp(txlog, "snapshot")
    /\ HasOp(txlog, "clear") => HasOp(txlog, "commit")
    /\ HasOp(txlog, "enable") => HasOp(txlog, "clear")

\* C7: the steps of a transaction occur in the order snapshot, installs,
\* removals, commit, clear of m_running, re-enabling of ok; m_running is true
\* from the start of the transaction until the worker clears it after the
\* commit; and the worker enters a transaction only at a moment when
\* m_running and m_thread_running are both true.
C7_TransactionOrder ==
    /\ [](TxLogOrdered)
    /\ []((InTransaction /\ wpc # "enable") => m_running)
    /\ []((wpc = "enable") => HasOp(txlog, "clear"))
    /\ [][(~InTransaction /\ InTransaction') => (m_running /\ m_thread_running)]_vars

\* A transaction with an install and a removal ran to its end.
C7_Witness ==
    /\ wpc = "loop"
    /\ HasOp(txlog, "install") /\ HasOp(txlog, "remove")
    /\ txlog[Len(txlog)].op = "enable"

\* The packages of the entries of the log with operation op, in order.
RECURSIVE PkgsOf(_, _)
PkgsOf(log, op) ==
    IF log = <<>> THEN <<>>
    ELSE IF Head(log).op = op
         THEN <<Head(log).pkg>> \o PkgsOf(Tail(log), op)
         ELSE PkgsOf(Tail(log), op)

\* C8: failures do not abort the batch: at every point of the install pass
\* every eligible package before the loop index was attempted, after it every
\* eligible package of the snapshot was, the same holds of the remove pass,
\* and the commit and the clearing of m_running follow.
C8_BatchContinuesAfterFailure ==
    /\ wpc = "install" =>
          /\ PkgsOf(txlog, "install")
                = SelectSeq(SubSeq(change_list, 1, idx - 1), InstallEligible)
          /\ PkgsOf(txlog, "remove") = <<>>
    /\ wpc = "remove" =>
          /\ PkgsOf(txlog, "install") = SelectSeq(change_list, InstallEligible)
          /\ PkgsOf(txlog, "remove")
                = SelectSeq(SubSeq(change_list, 1, idx - 1), RemoveEligible)
    /\ wpc = "commit" =>
          /\ PkgsOf(txlog, "install") = SelectSeq(change_list, InstallEligible)
          /\ PkgsOf(txlog, "remove") = SelectSeq(change_list, RemoveEligible)
    /\ wpc = "clear" => txlog[Len(txlog)].op = "commit"
    /\ wpc = "enable" => txlog[Len(txlog)].op = "clear" /\ HasOp(txlog, "commit")

\* An install failed, a later package was still processed, and the
\* transaction was committed and m_running cleared.
C8_Witness ==
    /\ wpc = "enable"
    /\ \E i, j \in 1..Len(txlog) :
          /\ i < j
          /\ txlog[i].op = "install" /\ ~txlog[i].ok
          /\ txlog[j].op \in {"install", "remove"}
          /\ txlog[j].pkg # txlog[i].pkg

\* C9: once a transaction has committed and no checkbox changed since, the
\* change list is empty.
C9_ChangeListEmptyAfterCommit ==
    committedClean => m_change_list = <<>>

\* C10: when the state file reports anything but "enabled" (its first line,
\* or nothing when it is missing or empty), the label shows exactly that
\* value and the ops file was not read.
C10_RawStateReturned ==
    LET reported == IF state_file.exists /\ Len(state_file.lines) > 0
                    THEN state_file.lines[1] ELSE ""
    IN  reported # "enabled" =>
            /\ current_sched_label = reported
            /\ ~ops_read

\* The state file reports "disabled" while the ops file names a scheduler.
C10_Witness ==
    /\ state_file.exists /\ state_file.lines # <<>>
    /\ state_file.lines[1] = "disabled"
    /\ ops_file.exists /\ ops_file.lines # <<>>
    /\ ops_file.lines[1] = "scx_rusty"
    /\ current_sched_label = "disabled"
    /\ ~ops_read

\* C11: when the state file reports "enabled", the ops file is read; the label
\* shows "unknown" when the ops file yields nothing (it is missing, empty, or
\* its first line is blank) and the first line of the ops file otherwise.
C11_UnknownWhenOpsEmpty ==
    LET state == IF state_file.exists /\ Len(state_file.lines) > 0
                 THEN state_file.lines[1] ELSE ""
        ops == IF ops_file.exists /\ Len(ops_file.lines) > 0
               THEN ops_file.lines[1] ELSE ""
    IN  state = "enabled" =>
            /\ ops_read
            /\ ops = "" => current_sched_label = "unknown"
            /\ ops # "" => current_sched_label = ops

\* The state file reports "enabled" and the ops file is there but empty.
C11_Witness ==
    /\ state_file.exists /\ state_file.lines # <<>>
    /\ state_file.lines[1] = "enabled"
    /\ ops_file.exists /\ ops_file.lines = <<>>
    /\ current_sched_label = "unknown"
    /\ ops_read

\* A line of /etc/default/scx that assigns or mentions SCX_FLAGS.
FlagsLine(l) == "SCX_FLAGS=" \in TokensOf(l)

\* A commented line starts with the comment character.
CommentedLine(l) == l # <<>> /\ Head(l) = "#"

\* The file has a flags line and no flags line is commented.
FlagsUncommented(conf) ==
    /\ \E i \in 1..Len(conf) : FlagsLine(conf[i])
    /\ \A i \in 1..Len(conf) : FlagsLine(conf[i]) => ~CommentedLine(conf[i])

\* The file has a flags line and every flags line is commented.
FlagsCommented(conf) ==
    /\ \E i \in 1..Len(conf) : FlagsLine(conf[i])
    /\ \A i \in 1..Len(conf) : FlagsLine(conf[i]) => CommentedLine(conf[i])

\* The command of the last on_apply has run.
ApplyRan == handler = "on_apply" /\ proc = "ran"

\* C12: when on_apply ran with a flags text that is empty after trimming and
\* the flags line of the file was uncommented, the flags line is commented
\* once the launched command has run.
C12_EmptyFlagsCommentOut ==
    (ApplyRan /\ trimmed(flags_edit) = <<>> /\ FlagsUncommented(conf_before))
        => FlagsCommented(scx_conf)

\* C13: when on_apply ran with a flags text that is not empty after trimming
\* and the flags line of the file was commented, the file holds the flags
\* line SCX_FLAGS='<text>' and no commented flags line once the launched
\* command has run.
C13_FlagsSetAndUncommented ==
    (ApplyRan /\ trimmed(flags_edit) # <<>> /\ FlagsCommented(conf_before))
        => /\ FlagsUncommented(scx_conf)
           /\ \E i \in 1..Len(scx_conf) :
                  scx_conf[i] = <<"SCX_FLAGS=", "'">> \o trimmed(flags_edit) \o <<"'">>

\* C14: after on_apply exactly one process has been started through pkexec,
\* a bash -c command line whose first sed expression sets SCX_SCHEDULER to the
\* combo box entry, and both buttons are enabled again whether or not the
\* process has run; until it runs, its systemctl subcommand is "restart" when
\* the service is enabled and "enable --now" when it is not.
C14_ApplyLaunchesOne ==
    handler = "on_apply" =>
        /\ Len(launched) = 1
        /\ launched[1].program = "/usr/bin/pkexec"
        /\ launched[1].shell
        /\ launched[1].sed # <<>>
        /\ launched[1].sed[1] = [kind |-> "key_to_end", key |-> "SCX_SCHEDULER=",
                                 repl |-> <<"SCX_SCHEDULER=", combo_current>>]
        /\ apply_button /\ disable_button
        /\ proc = "launched" =>
              launched[1].systemctl = IF svc_enabled_out = "enabled"
                                      THEN "restart" ELSE "enable --now"

C14_Witness ==
    /\ handler = "on_apply"
    /\ proc = "launched"
    /\ apply_button /\ disable_button
    /\ combo_current = "scx_rusty"
    /\ svc_enabled_out = "enabled"
    /\ launched[1].systemctl = "restart"

\* C15: after on_disable at most one process has been started and both
\* buttons are enabled again; until that process runs, it is
\* "systemctl disable --now scx" when the service is enabled,
\* "systemctl stop scx" when it is not enabled but active, and there is none
\* when the service is neither.
C15_DisableLaunchesAtMostOne ==
    handler = "on_disable" =>
        /\ Len(launched) <= 1
        /\ apply_button /\ disable_button
        /\ proc \in {"launched", "none"} =>
              launched =
                  IF svc_enabled_out = "enabled"
                  THEN <<[program |-> "/usr/bin/pkexec", shell |-> FALSE,
                          sed |-> <<>>, systemctl |-> "disable --now"]>>
                  ELSE IF svc_active_out = "active"
                  THEN <<[program |-> "/usr/bin/pkexec", shell |-> FALSE,
                          sed |-> <<>>, systemctl |-> "stop"]>>
                  ELSE <<>>

C15_Witness ==
    /\ handler = "on_disable"
    /\ proc = "launched"
    /\ svc_enabled_out = "disabled"
    /\ svc_active_out = "active"
    /\ launched[1].systemctl = "stop"
    /\ apply_button /\ disable_button

\* C16: closeEvent does not wait for the worker: once it has notified, the
\* release of the handle can run whatever the worker is doing, and a worker
\* that is in the install, remove or commit statement of a transaction goes
\* on with it although the handle has been released.
C16_ReleaseDoesNotWait ==
    /\ uipc = "cl_release" => ENABLED CloseEventRelease
    /\ (handle_released > 0 /\ wpc \in {"install", "remove", "commit"})
           => ENABLED (WorkerInstall \/ WorkerRemove \/ WorkerCommit)

\* closeEvent has returned, the handle is released, and the worker, past the
\* snapshot of a transaction, is at a remove call for a package of the
\* snapshot, with the commit still to come.
C16_Witness ==
    /\ Closed
    /\ handle_released > 0
    /\ wpc = "remove"
    /\ \E i \in 1..Len(txlog) : txlog[i].op = "snapshot"
    /\ idx <= Len(change_list)
    /\ RemoveEligible(change_list[idx])

\* C17: every step that changes m_running or m_thread_running is taken by a
\* thread that holds m_mutex (a step of the UI thread moves uipc, any other
\* step is the worker's), and neither flag changes while the worker is
\* between the evaluation of the wait's predicate and its blocking.
C17_FlagWritesUnderMutex ==
    [][ /\ (m_running' # m_running \/ m_thread_running' # m_thread_running)
            => IF uipc' # uipc THEN MutexHeldByUi(uipc)
                               ELSE MutexHeldByWorker(wpc)
        /\ wpc = "towait"
            => (m_running' = m_running /\ m_thread_running' = m_thread_running)
      ]_vars

\* C18: when the copy loop has finished, the snapshot equals one of the
\* values m_change_list had between the creation of the vector and the end
\* of the loop.
C18_SnapshotIsOneListState ==
    (wpc = TxAfter("snap_copy") /\ seenLists # {}) => change_list \in seenLists

\* C19: the worker is never inside a transaction while m_running is true
\* only because closeEvent stored it.
C19_CloseCausesNoTransaction ==
    ~(InTransaction /\ wpc # "enable" /\ closeSetRunning)

\* C20: in a transaction confirmed by on_execute, no install and no remove
\* is issued for an item that was in its initial check state when ok was
\* clicked (an immutable item after having been toggled) and has not been
\* toggled since.
C20_ToggledBackIsNoChange ==
    (wpc \in {"install", "remove", "commit", "clear"} /\ ~closeSetRunning)
        => \A i \in 1..Len(txlog) :
               txlog[i].op \in {"install", "remove"}
                   => txlog[i].pkg \notin backAtConfirm

\* C21: in a transaction, until its commit, every install was issued for a
\* known kernel that is not installed or has an update, every remove for a
\* known kernel that is installed, and no kernel has both an install and a
\* remove in the log of the transaction.
C21_InstallXorRemove ==
    /\ wpc \in {"install", "remove", "commit"} =>
          \A i \in 1..Len(txlog) :
              /\ txlog[i].op = "install" =>
                    /\ txlog[i].pkg \in Kernels
                    /\ ~installed[txlog[i].pkg] \/ update_available[txlog[i].pkg]
              /\ txlog[i].op = "remove" =>
                    /\ txlog[i].pkg \in Kernels
                    /\ installed[txlog[i].pkg]
    /\ \A i, j \in 1..Len(txlog) :
          ~(/\ txlog[i].op = "install"
            /\ txlog[j].op = "remove"
            /\ txlog[i].pkg = txlog[j].pkg)

====
